---- MODULE Spec2Model ----
(***************************************************************************)
(* Model of the chat relay of src/server.js: the POST /api/chat handler,   *)
(* the per-session history, the two stream extractors (newline-delimited   *)
(* for Ollama, brace-matched for Gemini) and the finalization of the       *)
(* assistant turn.                                                         *)
(*                                                                         *)
(* Text is a sequence of one-character strings.  The backend's response    *)
(* body is a sequence of bytes; a byte is written as the character it      *)
(* encodes, except the two bytes "C3" "A9" of the two-byte UTF-8 encoding  *)
(* of U+00E9, which decode to the character "E9".  "FFFD" is the           *)
(* replacement character.                                                  *)
(*                                                                         *)
(* Frames are JSON objects written in a short form that keeps the lexical  *)
(* structure the extractors depend on (braces, string literals, escapes,   *)
(* whitespace) and drops the member names:                                 *)
(*     value  ::= object | string                                          *)
(*     object ::= "{" [ string ] [ "d" ] "}"  |  "{" object "}"            *)
(*     string ::= '"' ( char | '\' '"' | '\' '\' )* '"'                    *)
(* The string member of an object stands for the text member the handler   *)
(* reads (message.content, candidates[0].content.parts[0].text), the       *)
(* member "d" stands for "done": true, and a nested object stands for the  *)
(* nesting of the real frames.                                             *)
(***************************************************************************)
EXTENDS Integers, Sequences, FiniteSets, TLC

LB == "{"
RB == "}"
QT == "\""
BS == "\\"
NL == "\n"

(* ---------------------------------------------------------------------- *)
(* Text helpers                                                           *)
(* ---------------------------------------------------------------------- *)

\* String.prototype.substring(from) / slice(from), 0-based `from`.
substring(s, from) == SubSeq(s, from + 1, Len(s))

\* String.prototype.indexOf(ch, from), 0-based; -1 when absent.
RECURSIVE indexOf(_, _, _)
indexOf(s, ch, from) ==
  IF from >= Len(s) THEN -1
  ELSE IF s[from + 1] = ch THEN from
  ELSE indexOf(s, ch, from + 1)

Whitespace == {NL, " "}

RECURSIVE trimStart(_)
trimStart(s) ==
  IF s # <<>> /\ s[1] \in Whitespace THEN trimStart(Tail(s)) ELSE s

RECURSIVE trimEnd(_)
trimEnd(s) ==
  IF s # <<>> /\ s[Len(s)] \in Whitespace
  THEN trimEnd(SubSeq(s, 1, Len(s) - 1)) ELSE s

\* String.prototype.trim()
trim(s) == trimEnd(trimStart(s))

\* String.prototype.split("\n"): the sequence of lines (empty lines included).
RECURSIVE split(_, _)
split(s, cur) ==
  IF s = <<>> THEN <<cur>>
  ELSE IF s[1] = NL THEN <<cur>> \o split(Tail(s), <<>>)
  ELSE split(Tail(s), Append(cur, s[1]))

\* A trim that keeps the first n elements instead of the last n.
sliceFirst(arr, n) ==
  IF Len(arr) <= n THEN arr ELSE SubSeq(arr, 1, n)

\* Array.prototype.slice(-n) for n > 0: the last n elements.
sliceLast(arr, n) ==
  IF Len(arr) <= n THEN arr ELSE SubSeq(arr, Len(arr) - n + 1, Len(arr))

\* Buffer.prototype.toString("utf8") of ONE chunk: a complete two-byte
\* sequence decodes to its character; a lead byte without its continuation
\* byte, and a continuation byte without its lead byte, each decode to the
\* replacement character.
RECURSIVE toString(_)
toString(bytes) ==
  IF bytes = <<>> THEN <<>>
  ELSE IF bytes[1] = "C3"
    THEN IF Len(bytes) >= 2 /\ bytes[2] = "A9"
         THEN <<"E9">> \o toString(SubSeq(bytes, 3, Len(bytes)))
         ELSE <<"FFFD">> \o toString(Tail(bytes))
  ELSE IF bytes[1] = "A9" THEN <<"FFFD">> \o toString(Tail(bytes))
  ELSE <<bytes[1]>> \o toString(Tail(bytes))

(* ---------------------------------------------------------------------- *)
(* JSON.parse on the short form                                           *)
(* ---------------------------------------------------------------------- *)

NoParse == [ok |-> FALSE, text |-> <<>>, done |-> FALSE, next |-> 0]

RECURSIVE skipWs(_, _)
skipWs(s, i) ==
  IF i <= Len(s) /\ s[i] \in Whitespace THEN skipWs(s, i + 1) ELSE i

\* The characters of a string literal whose opening quote is at i - 1;
\* acc is the value read so far.
RECURSIVE parseChars(_, _, _)
parseChars(s, i, acc) ==
  IF i > Len(s) THEN NoParse
  ELSE IF s[i] = QT
    THEN [ok |-> TRUE, text |-> acc, done |-> FALSE, next |-> i + 1]
  ELSE IF s[i] = BS
    THEN IF i + 1 <= Len(s) /\ s[i + 1] \in {QT, BS}
         THEN parseChars(s, i + 2, Append(acc, s[i + 1]))
         ELSE NoParse
  ELSE IF s[i] = NL THEN NoParse
  ELSE parseChars(s, i + 1, Append(acc, s[i]))

\* An object whose opening brace is at i.
RECURSIVE parseObject(_, _)
parseObject(s, i) ==
  LET j == skipWs(s, i + 1) IN
  IF j > Len(s) THEN NoParse
  ELSE IF s[j] = LB
    THEN LET in == parseObject(s, j)
             k  == skipWs(s, in.next) IN
         IF in.ok /\ k <= Len(s) /\ s[k] = RB
         THEN [in EXCEPT !.next = k + 1] ELSE NoParse
  ELSE
    LET str == IF s[j] = QT THEN parseChars(s, j + 1, <<>>)
               ELSE [ok |-> TRUE, text |-> <<>>, done |-> FALSE, next |-> j]
        k   == IF str.ok THEN skipWs(s, str.next) ELSE 0
        hasD == str.ok /\ k <= Len(s) /\ s[k] = "d"
        m   == IF hasD THEN skipWs(s, k + 1) ELSE k IN
    IF str.ok /\ m <= Len(s) /\ s[m] = RB
    THEN [ok |-> TRUE, text |-> str.text, done |-> hasD, next |-> m + 1]
    ELSE NoParse

\* JSON.parse(s) followed by the handler's reads of the text member and of
\* the done flag: ok is FALSE when JSON.parse throws.
JSONparse(s) ==
  LET i == skipWs(s, 1) IN
  IF i > Len(s) THEN NoParse
  ELSE
    LET v == IF s[i] = LB THEN parseObject(s, i)
             ELSE IF s[i] = QT
               THEN [parseChars(s, i + 1, <<>>) EXCEPT !.text = <<>>]
             ELSE NoParse IN
    IF v.ok /\ skipWs(s, v.next) > Len(s) THEN v ELSE NoParse

(* ---------------------------------------------------------------------- *)
(* Brace-matched extractor (Gemini)                                       *)
(* ---------------------------------------------------------------------- *)

\* buffer[i] with a 0-based index; "undefined" outside the string.
charAt(buffer, i) ==
  IF i >= 0 /\ i < Len(buffer) THEN buffer[i + 1] ELSE "undefined"

\* Whether the character at i is a quote that toggles the in-string state.
togglesString(buffer, i) ==
  charAt(buffer, i) = QT /\ charAt(buffer, i - 1) # BS

\* The inner for loop: from index i with the given braceCount and inString,
\* the index of the brace that closes the object, or -1.
RECURSIVE scanObject(_, _, _, _)
scanObject(buffer, i, braceCount, inString) ==
  IF i >= Len(buffer) THEN -1
  ELSE
    LET char == charAt(buffer, i)
        toggle == togglesString(buffer, i)
        inStr == IF toggle THEN ~inString ELSE inString
        count == IF toggle \/ inString THEN braceCount
                 ELSE IF char = LB THEN braceCount + 1
                 ELSE IF char = RB THEN braceCount - 1
                 ELSE braceCount IN
    IF count = 0 /\ char = RB THEN i
    ELSE scanObject(buffer, i + 1, count, inStr)

\* What the handler does with one extracted jsonString: the fragment it
\* forwards (<<>> for none) and whether JSON.parse threw.
geminiFrame(jsonString) ==
  LET json == JSONparse(jsonString) IN
  [part |-> IF json.ok THEN json.text ELSE <<>>, threw |-> ~json.ok]

\* The while (true) loop over one buffer: the final lastIndex, the fragments
\* forwarded in order, and the number of parse errors logged.
RECURSIVE geminiScan(_, _, _, _)
geminiScan(buffer, lastIndex, parts, errors) ==
  LET startIndex == indexOf(buffer, LB, lastIndex) IN
  IF startIndex = -1
  THEN [lastIndex |-> lastIndex, parts |-> parts, errors |-> errors]
  ELSE
    LET endIndex == scanObject(buffer, startIndex, 0, FALSE) IN
    IF endIndex = -1
    THEN [lastIndex |-> lastIndex, parts |-> parts, errors |-> errors]
    ELSE
      LET f == geminiFrame(SubSeq(buffer, startIndex + 1, endIndex + 1)) IN
      geminiScan(buffer, endIndex + 1,
                 IF f.part # <<>> THEN Append(parts, f.part) ELSE parts,
                 IF f.threw THEN errors + 1 ELSE errors)

\* The end of an iteration that keeps the whole buffer, consumed objects
\* included.
keepAll(buf, sc) ==
  [buffer |-> buf, parts |-> sc.parts, errors |-> sc.errors]

\* The end of one iteration: the unconsumed tail is kept in the buffer.
keepTail(buf, sc) ==
  [buffer |-> substring(buf, sc.lastIndex), parts |-> sc.parts,
   errors |-> sc.errors]

scanBuffer(buf) == keepTail(buf, geminiScan(buf, 0, <<>>, 0))

\* One iteration of the for await loop: the chunk is decoded and appended to
\* the buffer, the buffer is scanned, the unconsumed tail is kept.
geminiChunk(buffer, chunk) == scanBuffer(buffer \o toString(chunk))

(* ---------------------------------------------------------------------- *)
(* Newline-delimited extractor (Ollama)                                   *)
(* ---------------------------------------------------------------------- *)

\* The loop over the lines without the return at done = true: later lines
\* are still read.
RECURSIVE ollamaLinesNoStop(_, _, _)
ollamaLinesNoStop(lines, parts, errors) ==
  IF lines = <<>> THEN [parts |-> parts, errors |-> errors, done |-> FALSE]
  ELSE IF Head(lines) = <<>>
    THEN ollamaLinesNoStop(Tail(lines), parts, errors)
  ELSE IF ~JSONparse(Head(lines)).ok
    THEN ollamaLinesNoStop(Tail(lines), parts, errors + 1)
  ELSE [ollamaLinesNoStop(
          Tail(lines),
          IF JSONparse(Head(lines)).text # <<>>
          THEN Append(parts, JSONparse(Head(lines)).text) ELSE parts,
          errors)
        EXCEPT !.done = @ \/ JSONparse(Head(lines)).done]

\* The loop over the lines with a parse failure that leaves the loop: the
\* lines after the failing one are not read.
RECURSIVE ollamaLinesBreak(_, _, _)
ollamaLinesBreak(lines, parts, errors) ==
  IF lines = <<>> THEN [parts |-> parts, errors |-> errors, done |-> FALSE]
  ELSE IF Head(lines) = <<>>
    THEN ollamaLinesBreak(Tail(lines), parts, errors)
  ELSE IF ~JSONparse(Head(lines)).ok
    THEN [parts |-> parts, errors |-> errors + 1, done |-> FALSE]
  ELSE IF JSONparse(Head(lines)).done
    THEN [parts |-> IF JSONparse(Head(lines)).text # <<>>
                    THEN Append(parts, JSONparse(Head(lines)).text)
                    ELSE parts,
          errors |-> errors, done |-> TRUE]
  ELSE ollamaLinesBreak(
         Tail(lines),
         IF JSONparse(Head(lines)).text # <<>>
         THEN Append(parts, JSONparse(Head(lines)).text) ELSE parts,
         errors)

\* The for (const line of ...) loop over the lines of one chunk: the
\* fragments forwarded in order, the parse errors logged, and whether a line
\* with done = true ended the loop (and the request).
RECURSIVE ollamaLines(_, _, _)
ollamaLines(lines, parts, errors) ==
  IF lines = <<>> THEN [parts |-> parts, errors |-> errors, done |-> FALSE]
  ELSE
    LET line == Head(lines) IN
    IF line = <<>> THEN ollamaLines(Tail(lines), parts, errors)
    ELSE
      LET json == JSONparse(line)
          ps == IF json.ok /\ json.text # <<>>
                THEN Append(parts, json.text) ELSE parts IN
      IF ~json.ok THEN ollamaLines(Tail(lines), parts, errors + 1)
      ELSE IF json.done
        THEN [parts |-> ps, errors |-> errors, done |-> TRUE]
      ELSE ollamaLines(Tail(lines), ps, errors)

\* One iteration of the for await loop.
ollamaChunk(chunk) ==
  LET str == trim(toString(chunk)) IN
  IF str = <<>> THEN [parts |-> <<>>, errors |-> 0, done |-> FALSE]
  ELSE ollamaLines(split(str, <<>>), <<>>, 0)

\* assistantMessage after the fragments of parts were appended to it.
RECURSIVE concat(_)
concat(parts) ==
  IF parts = <<>> THEN <<>> ELSE Head(parts) \o concat(Tail(parts))

(* ---------------------------------------------------------------------- *)
(* The handler's state                                                    *)
(* ---------------------------------------------------------------------- *)

\* Trimming bound of a session's history (MAX_CONVERSATION_HISTORY).
MAX_HISTORY == 2

\* Requests received over a whole run, and the slots of the requests that
\* may be in flight together.
MaxRequests == 2

Requests == {1, 2}

\* Keys a client may send: two ordinary ones and one that names a property
\* every object inherits.
OwnKeys == {"s1", "s2"}
InheritedKeys == {"constructor"}
SessionIds == OwnKeys \cup InheritedKeys

\* Values of req.body.message: missing, not a string, empty, blank, valid.
Messages ==
  { [type |-> "undefined", val |-> <<>>],
    [type |-> "number", val |-> <<"7">>],
    [type |-> "string", val |-> <<>>],
    [type |-> "string", val |-> <<NL>>],
    [type |-> "string", val |-> <<"u">>] }

VARIABLES
  USE_OLLAMA,            \* the backend in use, fixed for the process
  apiKey,                \* whether GEMINI_API_KEY is set in the environment
  conversationHistory,   \* session key -> sequence of turns (own keys only)
  req,                   \* per request: position, locals and response
  started                \* requests received so far

vars == <<USE_OLLAMA, apiKey, conversationHistory, req, started>>

\* A request slot before a request arrives.
\*   pc        "idle" | "fetch" | "text" | "stream" | "ended" | "rejected"
\*             | "crashed"
\*   status    HTTP status sent (0: none), sse: event-stream headers sent
\*   events    output events written to the client, in order
\*   sent      the message history put in the backend request body
\*   text, pos the response body of the backend and the bytes read of it
\*   errors    parse errors logged
NoRequest ==
  [pc |-> "idle", sessionId |-> "", status |-> 0,
   sse |-> FALSE, events |-> <<>>, sent |-> <<>>, text |-> <<>>, pos |-> 0,
   assistantMessage |-> <<>>, buffer |-> <<>>, errors |-> 0]

Fragment(part) == [type |-> "Fragment", data |-> part]
Done == [type |-> "Done", data |-> <<>>]
Error(message) == [type |-> "Error", data |-> <<message>>]

RECURSIVE Fragments(_)
Fragments(parts) ==
  IF parts = <<>> THEN <<>>
  ELSE <<Fragment(Head(parts))>> \o Fragments(Tail(parts))

Turn(role, content) == [role |-> role, content |-> content]

\* conversationHistory[sessionId], <<>> when the key has no entry.
History(sessionId) ==
  IF sessionId \in DOMAIN conversationHistory
  THEN conversationHistory[sessionId] ELSE <<>>

\* Validation that only tests for a missing message.
InvalidMissingOnly(message) == message.type = "undefined"

\* The validation of req.body.message.
Invalid(message) ==
  message.type # "string" \/ message.val = <<>> \/ trim(message.val) = <<>>

\* The push of the user turn without the trim that follows it.
pushUserNoTrim(history, content) == Append(history, Turn("user", content))

\* Lines 36-44: lazy creation, push of the user turn, trim.
pushUser(history, content) ==
  LET pushed == Append(history, Turn("user", content)) IN
  IF Len(pushed) > MAX_HISTORY THEN sliceLast(pushed, MAX_HISTORY)
  ELSE pushed

\* The push of the assistant turn at the end of a stream.
pushAssistant(history, content) == Append(history, Turn("assistant", content))

\* toGeminiFormat: role "assistant" becomes "model".
toGeminiFormat(history) ==
  [i \in 1..Len(history) |->
     [role |-> IF history[i].role = "assistant" THEN "model"
               ELSE history[i].role,
      content |-> history[i].content]]

\* The messages put in the request body of the backend in use.
requestBody(history) ==
  IF USE_OLLAMA THEN history ELSE toGeminiFormat(history)

Init ==
  /\ USE_OLLAMA \in BOOLEAN
  /\ apiKey \in BOOLEAN
  /\ conversationHistory = [k \in {} |-> <<>>]
  /\ req = [r \in Requests |-> NoRequest]
  /\ started = 0

(* ---------------------------------------------------------------------- *)
(* The handler's steps: one action per run between two awaits             *)
(* ---------------------------------------------------------------------- *)

\* A store that keeps one array for all the sessions.
setHistoryShared(sessionId, history) ==
  [k \in DOMAIN conversationHistory \cup {sessionId} |-> history]

\* conversationHistory with the entry of sessionId set to history.
setHistory(sessionId, history) ==
  [k \in DOMAIN conversationHistory \cup {sessionId} |->
     IF k = sessionId THEN history ELSE conversationHistory[k]]

\* A catch handler that logs and ends the response without an error event.
catchSilent(q, message) == [q EXCEPT !.pc = "ended"]

\* The catch handler: one error event, then res.end().
catch(q, message) ==
  [q EXCEPT !.pc = "ended", !.events = Append(@, Error(message))]

\* A finalization that pushes onto the array the request held when it
\* built its request body and stores that array back: what other requests
\* appended in the meantime is overwritten.
finalizeSnapshot(r, q) ==
  /\ conversationHistory' =
       setHistory(q.sessionId,
                  pushAssistant(
                    [i \in 1..Len(q.sent) |->
                       Turn(IF q.sent[i].role = "model" THEN "assistant"
                            ELSE q.sent[i].role, q.sent[i].content)],
                    q.assistantMessage))
  /\ req' = [req EXCEPT ![r] =
       [q EXCEPT !.pc = "ended", !.events = Append(@, Done)]]

\* Stream-end finalization of request r: the assistant turn is pushed, the
\* done marker is written, the response is ended.
finalize(r, q) ==
  /\ conversationHistory' =
       setHistory(q.sessionId,
                  pushAssistant(History(q.sessionId), q.assistantMessage))
  /\ req' = [req EXCEPT ![r] =
       [q EXCEPT !.pc = "ended", !.events = Append(@, Done)]]

\* Slots whose request is over (or never came), and the one a new request
\* takes.
Free == {r \in Requests : req[r].pc \in {"idle", "ended", "rejected", "crashed"}}
firstFree == IF Free = {} THEN 0 ELSE CHOOSE r \in Free : \A o \in Free : r <= o

\* A request arrives in slot r: validation, user turn, SSE headers, and the
\* synchronous part of the try block up to the await of fetch.
postChat(r, sessionId, message) ==
  /\ r = firstFree
  /\ started' = started + 1
  /\ UNCHANGED <<USE_OLLAMA, apiKey>>
  /\ LET q == [NoRequest EXCEPT !.sessionId = sessionId] IN
     IF Invalid(message)
     THEN /\ req' = [req EXCEPT ![r] =
               [q EXCEPT !.pc = "rejected", !.status = 400]]
          /\ UNCHANGED conversationHistory
     ELSE IF sessionId \in InheritedKeys
     THEN \* conversationHistory[sessionId] is an inherited property, not an
          \* array: push throws outside the try block. Whether the framework
          \* answers the rejected handler is not decided by this code.
          /\ \E status \in {0, 500} :
               req' = [req EXCEPT ![r] =
                 [q EXCEPT !.pc = "crashed", !.status = status]]
          /\ UNCHANGED conversationHistory
     ELSE LET history == pushUser(History(sessionId), message.val)
              open == [q EXCEPT !.status = 200, !.sse = TRUE] IN
          /\ conversationHistory' = setHistory(sessionId, history)
          /\ IF ~USE_OLLAMA /\ ~apiKey
             THEN req' = [req EXCEPT ![r] =
                    catch(open, "No Gemini API key in env")]
             ELSE req' = [req EXCEPT ![r] =
                    [open EXCEPT !.pc = "fetch",
                                 !.sent = requestBody(history)]]

\* The requests of a run are counted up to MaxRequests.
Chat(r, sessionId, message) ==
  /\ started < MaxRequests
  /\ postChat(r, sessionId, message)

\* fetch resolves with a response: ok or not, with or without a body.
FetchResolves(r, ok, hasBody, bytes) ==
  /\ req[r].pc = "fetch"
  /\ UNCHANGED <<USE_OLLAMA, apiKey, conversationHistory, started>>
  /\ IF ~ok THEN req' = [req EXCEPT ![r].pc = "text"]
     ELSE IF ~hasBody
       THEN req' = [req EXCEPT ![r] = catch(@, "No response body")]
     ELSE req' = [req EXCEPT ![r].pc = "stream", ![r].text = bytes]

\* A catch handler that rolls the session back: the last turn of the
\* history is removed before the error event is written.
FetchRejectsRollsBack(r) ==
  /\ req[r].pc = "fetch"
  /\ UNCHANGED <<USE_OLLAMA, apiKey, started>>
  /\ conversationHistory' =
       setHistory(req[r].sessionId,
                  SubSeq(History(req[r].sessionId), 1,
                         Len(History(req[r].sessionId)) - 1))
  /\ req' = [req EXCEPT ![r] = catch(@, "fetch failed")]

\* fetch rejects (the backend cannot be reached).
FetchRejects(r) ==
  /\ req[r].pc = "fetch"
  /\ UNCHANGED <<USE_OLLAMA, apiKey, conversationHistory, started>>
  /\ req' = [req EXCEPT ![r] = catch(@, "fetch failed")]

\* The non-OK branch without its return: the handler goes on to read the
\* (empty) body.
TextResolvesNoReturn(r) ==
  /\ req[r].pc = "text"
  /\ UNCHANGED <<USE_OLLAMA, apiKey, conversationHistory, started>>
  /\ req' = [req EXCEPT ![r].pc = "stream",
                        ![r].events = Append(@, Error("Model error"))]

\* The non-OK branch recording an (empty) assistant turn.
TextResolvesFinalizes(r) ==
  /\ req[r].pc = "text"
  /\ UNCHANGED <<USE_OLLAMA, apiKey, started>>
  /\ conversationHistory' =
       setHistory(req[r].sessionId,
                  pushAssistant(History(req[r].sessionId), <<>>))
  /\ req' = [req EXCEPT ![r].pc = "ended",
                        ![r].events = Append(@, Error("Model error"))]

\* response.text() of a non-OK response resolves: the error event is
\* written and the response ended.
TextResolves(r) ==
  /\ req[r].pc = "text"
  /\ UNCHANGED <<USE_OLLAMA, apiKey, conversationHistory, started>>
  /\ req' = [req EXCEPT ![r].pc = "ended",
                        ![r].events = Append(@, Error("Model error"))]

\* response.text() rejects.
TextRejects(r) ==
  /\ req[r].pc = "text"
  /\ UNCHANGED <<USE_OLLAMA, apiKey, conversationHistory, started>>
  /\ req' = [req EXCEPT ![r] = catch(@, "body read failed")]

\* The next n bytes of the body of request q.
nextChunk(q, n) == SubSeq(q.text, q.pos + 1, q.pos + n)

\* Fragments forwarded, but the accumulator assigned instead of appended to.
forwardOverwrite(q, n, out) ==
  [q EXCEPT !.pos = @ + n,
            !.assistantMessage = concat(out.parts),
            !.events = @ \o Fragments(out.parts),
            !.errors = @ + out.errors]

\* The locals of request q after a chunk of n bytes gave the fragments and
\* parse errors of out.
forward(q, n, out) ==
  [q EXCEPT !.pos = @ + n,
            !.assistantMessage = @ \o concat(out.parts),
            !.events = @ \o Fragments(out.parts),
            !.errors = @ + out.errors]

\* A parse error that is not caught inside the loop and reaches the outer
\* catch handler.
geminiStepThrows(q, n, out) ==
  IF out.errors > 0 THEN catch([q EXCEPT !.pos = @ + n], "parse error")
  ELSE [forward(q, n, out) EXCEPT !.buffer = out.buffer]

\* The next chunk, the next n bytes of the body, arrives (Gemini).
geminiStep(q, n, out) == [forward(q, n, out) EXCEPT !.buffer = out.buffer]

GeminiChunk(r, n) ==
  /\ ~USE_OLLAMA
  /\ req[r].pc = "stream"
  /\ n \in 1..(Len(req[r].text) - req[r].pos)
  /\ UNCHANGED <<USE_OLLAMA, apiKey, conversationHistory, started>>
  /\ req' = [req EXCEPT ![r] =
       geminiStep(@, n, geminiChunk(@.buffer, nextChunk(@, n)))]

\* The done branch without its return: the turn is pushed and the done
\* marker written, but the loop over the body goes on.
ollamaStepNoReturn(r, q, done) ==
  IF done
  THEN /\ conversationHistory' =
            setHistory(q.sessionId,
                       pushAssistant(History(q.sessionId), q.assistantMessage))
       /\ req' = [req EXCEPT ![r] = [q EXCEPT !.events = Append(@, Done)]]
  ELSE /\ req' = [req EXCEPT ![r] = q]
       /\ UNCHANGED conversationHistory

\* The next chunk arrives (Ollama); a line with done = true finalizes.
ollamaStep(r, q, done) ==
  IF done THEN finalize(r, q)
  ELSE /\ req' = [req EXCEPT ![r] = q]
       /\ UNCHANGED conversationHistory

ollamaOut(r, n, out) == ollamaStep(r, forward(req[r], n, out), out.done)

OllamaChunk(r, n) ==
  /\ USE_OLLAMA
  /\ req[r].pc = "stream"
  /\ n \in 1..(Len(req[r].text) - req[r].pos)
  /\ UNCHANGED <<USE_OLLAMA, apiKey, started>>
  /\ ollamaOut(r, n, ollamaChunk(nextChunk(req[r], n)))

\* The body ends: the for await loop exits and the request is finalized.
StreamEnd(r) ==
  /\ req[r].pc = "stream"
  /\ req[r].pos = Len(req[r].text)
  /\ UNCHANGED <<USE_OLLAMA, apiKey, started>>
  /\ finalize(r, req[r])

\* A catch handler that records the partial text before the error event.
StreamErrorKeepsPartial(r) ==
  /\ req[r].pc = "stream"
  /\ UNCHANGED <<USE_OLLAMA, apiKey, started>>
  /\ conversationHistory' =
       setHistory(req[r].sessionId,
                  pushAssistant(History(req[r].sessionId),
                                req[r].assistantMessage))
  /\ req' = [req EXCEPT ![r] = catch(@, "stream failed")]

\* The body fails while it is read: the for await loop throws.
StreamError(r) ==
  /\ req[r].pc = "stream"
  /\ UNCHANGED <<USE_OLLAMA, apiKey, conversationHistory, started>>
  /\ req' = [req EXCEPT ![r] = catch(@, "stream failed")]

(* ---------------------------------------------------------------------- *)
(* Response bodies                                                        *)
(* ---------------------------------------------------------------------- *)

Frame(txt) == <<LB, QT>> \o txt \o <<QT, RB>>

\* Bodies the backend answers with in the handler-level specification.
Bodies ==
  { <<>>,
    Frame(<<"a">>),
    Frame(<<"a">>) \o <<NL, LB, QT, "b", QT, "d", RB>> }

\* Chunk sizes of the handler-level specification: a short chunk, or all the
\* rest of the body.
ChunkSizes(r) == {3, Len(req[r].text) - req[r].pos}

Next ==
  \E r \in Requests :
    \/ \E sessionId \in SessionIds, message \in Messages :
         Chat(r, sessionId, message)
    \/ \E ok \in BOOLEAN, hasBody \in BOOLEAN, bytes \in Bodies :
         FetchResolves(r, ok, hasBody, bytes)
    \/ FetchRejects(r)
    \/ TextResolves(r)
    \/ TextRejects(r)
    \/ \E n \in ChunkSizes(r) : GeminiChunk(r, n)
    \/ \E n \in ChunkSizes(r) : OllamaChunk(r, n)
    \/ StreamEnd(r)
    \/ StreamError(r)

Spec == Init /\ [][Next]_vars

\* A step of the handler of request r after its backend call was issued:
\* the continuation of an await, run by the event loop once the promise it
\* waits for is settled.
Progress(r) ==
  \/ FetchRejects(r)
  \/ TextRejects(r)
  \/ StreamError(r)
  \/ StreamEnd(r)
  \/ TextResolves(r)
  \/ \E ok \in BOOLEAN, hasBody \in BOOLEAN, bytes \in Bodies :
       FetchResolves(r, ok, hasBody, bytes)
  \/ \E n \in ChunkSizes(r) : GeminiChunk(r, n)
  \/ \E n \in ChunkSizes(r) : OllamaChunk(r, n)

\* The handler-level specification with a backend that settles every call
\* and whose body streams end or fail: a pending continuation of a handler
\* is eventually run.
SpecFair == Spec /\ \A r \in Requests : WF_vars(Progress(r))

(* ---------------------------------------------------------------------- *)
(* Requests racing on one session                                         *)
(* ---------------------------------------------------------------------- *)

\* The requests of a race: enough for a history to be trimmed while a
\* request is suspended.
MaxRaceRequests == 3

\* Two valid messages, so that the turns of two requests can be told apart.
RaceMessages ==
  { [type |-> "string", val |-> <<"u">>],
    [type |-> "string", val |-> <<"v">>] }

\* One body, delivered whole.
RaceBodies == { Frame(<<"a">>) }

\* A handler that takes a request only when no other request is being
\* served (a lock around the whole handler).
ChatRaceLocked(r) ==
  /\ started < MaxRaceRequests
  /\ \A o \in Requests : req[o].pc \notin {"fetch", "text", "stream"}
  /\ \E message \in RaceMessages : postChat(r, "s1", message)

\* A request for session "s1" arrives, whatever the other requests do.
ChatRace(r) ==
  /\ started < MaxRaceRequests
  /\ \E message \in RaceMessages : postChat(r, "s1", message)

\* The continuations of request r, as in Progress.
RaceProgress(r) ==
  \/ FetchRejects(r)
  \/ TextRejects(r)
  \/ StreamError(r)
  \/ StreamEnd(r)
  \/ TextResolves(r)
  \/ \E ok \in BOOLEAN, bytes \in RaceBodies : FetchResolves(r, ok, TRUE, bytes)
  \/ GeminiChunk(r, Len(req[r].text) - req[r].pos)
  \/ OllamaChunk(r, Len(req[r].text) - req[r].pos)

NextRace == \E r \in Requests : ChatRace(r) \/ RaceProgress(r)

SpecRace == Init /\ [][NextRace]_vars

(* ---------------------------------------------------------------------- *)
(* Stream-level specification: one request, every split of its body       *)
(* ---------------------------------------------------------------------- *)

\* Bodies of the stream-level specification: objects back to back, an
\* invalid object before a valid one and between two, stray garbage, a two-byte character,
\* an escaped quote, a brace inside a string, a string ending in an escaped
\* backslash, a nested object, and newline-delimited frames with and
\* without a done flag, after an invalid line and after a valid one.
StreamBodies ==
  { <<>>,
    Frame(<<"a">>) \o Frame(<<"b">>),
    <<LB, "a", RB>> \o Frame(<<"b">>),
    Frame(<<"a">>) \o <<LB, "a", RB>> \o Frame(<<"b">>),
    <<RB>> \o Frame(<<"b">>),
    Frame(<<"C3", "A9">>),
    Frame(<<BS, QT>>),
    Frame(<<RB>>),
    Frame(<<BS, BS>>) \o Frame(<<"b">>),
    <<LB>> \o Frame(<<"a">>) \o <<RB>>,
    Frame(<<"a">>) \o <<NL, LB, "d", RB, NL>> \o Frame(<<"b">>),
    <<LB, "a", RB, NL>> \o Frame(<<"b">>) \o <<NL>>,
    Frame(<<"a">>) \o <<NL>> \o Frame(<<"b">>) \o <<NL>> }

\* Every size a chunk of the body of request r may have.
AnySize(r) == 1..Len(req[r].text)

InitStream ==
  /\ USE_OLLAMA \in BOOLEAN
  /\ apiKey = TRUE
  /\ conversationHistory = [k \in {} |-> <<>>]
  /\ req = [r \in Requests |-> NoRequest]
  /\ started = 0

\* The first request of the process, with a valid message.
FirstChat ==
  /\ started = 0
  /\ Chat(1, "s1", [type |-> "string", val |-> <<"u">>])

NextStream ==
  \/ FirstChat
  \/ \E bytes \in StreamBodies : FetchResolves(1, TRUE, TRUE, bytes)
  \/ \E n \in AnySize(1) : GeminiChunk(1, n)
  \/ \E n \in AnySize(1) : OllamaChunk(1, n)
  \/ StreamEnd(1)
  \/ StreamError(1)

SpecStream == InitStream /\ [][NextStream]_vars

(* ---------------------------------------------------------------------- *)
(* Properties                                                             *)
(* ---------------------------------------------------------------------- *)

Last(seq) == seq[Len(seq)]
Front(seq) == SubSeq(seq, 1, Len(seq) - 1)
HasType(events, type) == \E i \in 1..Len(events) : events[i].type = type
IsSuffix(suffix, seq) ==
  /\ Len(suffix) <= Len(seq)
  /\ suffix = SubSeq(seq, Len(seq) - Len(suffix) + 1, Len(seq))

InFlight == {"fetch", "text", "stream"}

\* Request r, in flight before the step, has ended after it.
Ends(r) == req[r].pc \in InFlight /\ req'[r].pc = "ended"
EndsDone(r) == Ends(r) /\ HasType(req'[r].events, "Done")

\* The history of a session after the step.
HistoryAfter(sessionId) ==
  IF sessionId \in DOMAIN conversationHistory'
  THEN conversationHistory'[sessionId] ELSE <<>>

\* The step appends exactly one assistant turn to the session and changes
\* nothing else in the store.
AppendsAssistantTurn(sessionId) ==
  /\ DOMAIN conversationHistory' = DOMAIN conversationHistory
  /\ Len(HistoryAfter(sessionId)) = Len(History(sessionId)) + 1
  /\ Front(HistoryAfter(sessionId)) = History(sessionId)
  /\ Last(HistoryAfter(sessionId)).role = "assistant"
  /\ \A k \in DOMAIN conversationHistory \ {sessionId} :
       conversationHistory'[k] = conversationHistory[k]

\* The step appends no assistant turn: a history is unchanged, or it got a
\* user turn at its end (and possibly lost its oldest turns).
AppendsNoAssistantTurn ==
  \A k \in DOMAIN conversationHistory' :
    \/ HistoryAfter(k) = History(k)
    \/ /\ Last(HistoryAfter(k)).role = "user"
       /\ IsSuffix(Front(HistoryAfter(k)), History(k))

\* The text of the Fragment events of events, concatenated in order.
RECURSIVE fragmentText(_)
fragmentText(events) ==
  IF events = <<>> THEN <<>>
  ELSE (IF Head(events).type = "Fragment" THEN Head(events).data ELSE <<>>)
       \o fragmentText(Tail(events))

\* C1: in every reachable state every session's stored history has at most
\* MAX_HISTORY turns, after the user-turn append and after the
\* assistant-turn append at stream end.
C1_HistoryBounded ==
  \A k \in DOMAIN conversationHistory :
    Len(conversationHistory[k]) <= MAX_HISTORY

\* C2 as claimed: every validated request that runs to the end of its
\* response, whether it ends with Done or with an error, appends exactly one
\* assistant turn to its session.
C2_OneAssistantTurnPerRequest ==
  [][\A r \in Requests :
       Ends(r) => AppendsAssistantTurn(req[r].sessionId)]_vars

\* C2 as amended: a request appends exactly one assistant turn when it ends
\* with Done (also when no fragment was produced) and none when it ends with
\* an error; no other step appends an assistant turn, and an ended request
\* does nothing more.
C2_AssistantTurnIffDone ==
  [][/\ \A r \in Requests :
          /\ EndsDone(r) => AppendsAssistantTurn(req[r].sessionId)
          /\ (Ends(r) /\ ~EndsDone(r)) =>
               conversationHistory' = conversationHistory
          /\ (req[r].pc = "ended" /\ req'[r] # req[r]) =>
               started' = started + 1
     /\ (\A r \in Requests : ~EndsDone(r)) => AppendsNoAssistantTurn]_vars

\* A request ended with Done without any fragment, and its empty assistant
\* turn is the last turn of its session.
C2_Witness ==
  \E r \in Requests :
    /\ req[r].pc = "ended"
    /\ req[r].events = <<Done>>
    /\ History(req[r].sessionId) # <<>>
    /\ Last(History(req[r].sessionId)) = Turn("assistant", <<>>)

\* C3: when a request ends with Done, the content of the assistant turn it
\* appends is the concatenation, in emission order, of the text of the
\* Fragment events it emitted (the empty string when there was none).
C3_TurnIsFragmentsConcatenated ==
  [][\A r \in Requests :
       EndsDone(r) =>
         Last(HistoryAfter(req[r].sessionId)) =
           Turn("assistant", fragmentText(req'[r].events))]_vars

\* A request ended with Done after two fragments that arrived in separate
\* chunks, and the turn with both texts is the last of its session.
C3_Witness ==
  \E r \in Requests :
    /\ req[r].pc = "ended"
    /\ req[r].events = <<Fragment(<<"a">>), Fragment(<<"b">>), Done>>
    /\ Last(History(req[r].sessionId)) = Turn("assistant", <<"a", "b">>)

\* C4: the output events of a request are zero or more Fragment events
\* followed by at most one terminal event (Done or Error, never both);
\* nothing follows the terminal event, a request in flight has emitted
\* fragments only, and a request that opened a stream and ended has emitted
\* its terminal event.
C4_EventOrder ==
  \A r \in Requests :
    /\ \A i \in 1..Len(req[r].events) :
         req[r].events[i].type \in {"Done", "Error"} =>
           i = Len(req[r].events)
    /\ req[r].pc \in InFlight =>
         \A i \in 1..Len(req[r].events) : req[r].events[i].type = "Fragment"
    /\ (req[r].pc = "ended" /\ req[r].sse) =>
         /\ req[r].events # <<>>
         /\ Last(req[r].events).type \in {"Done", "Error"}
    /\ ~req[r].sse => req[r].events = <<>>

\* Both kinds of ending are reached: fragments then Done, and fragments
\* then Error.
C4_Witness ==
  \E r, o \in Requests :
    /\ req[r].pc = "ended" /\ req[o].pc = "ended"
    /\ Len(req[r].events) >= 2 /\ Last(req[r].events).type = "Done"
    /\ Len(req[o].events) >= 2 /\ Last(req[o].events).type = "Error"

\* C8: a request whose message is missing, is not a string or is empty gets
\* the validation error and changes nothing: no session is created, no
\* history is modified, no stream is opened, no output event is emitted, and
\* no other request is touched.
C8_RejectedChangesNothing ==
  [][\A r \in Requests, sessionId \in SessionIds, message \in Messages :
       (/\ Chat(r, sessionId, message)
        /\ (message.type # "string" \/ message.val = <<>>)) =>
         /\ conversationHistory' = conversationHistory
         /\ req'[r].status = 400
         /\ ~req'[r].sse
         /\ req'[r].events = <<>>
         /\ req'[r].pc \notin InFlight
         /\ \A o \in Requests \ {r} : req'[o] = req[o]]_vars

\* A request was rejected while a session with history exists and another
\* request is in flight.
C8_Witness ==
  \E r, o \in Requests :
    /\ req[r].pc = "rejected"
    /\ req[r].status = 400
    /\ req[o].pc \in InFlight
    /\ History(req[o].sessionId) # <<>>

\* The single event of a request is an Error event.
OneErrorOnly(events) == Len(events) = 1 /\ events[1].type = "Error"

\* C9: when the backend is unavailable (the Gemini credentials are absent,
\* or the initial response has a non-success status) the request emits
\* exactly one Error event, no Fragment and no Done, and no assistant turn is
\* appended.
C9_BackendUnavailable ==
  [][\A r \in Requests :
       /\ \A sessionId \in OwnKeys, message \in Messages :
            (/\ Chat(r, sessionId, message)
             /\ message.type = "string" /\ trim(message.val) # <<>>
             /\ ~USE_OLLAMA /\ ~apiKey) =>
              /\ req'[r].pc = "ended"
              /\ OneErrorOnly(req'[r].events)
              /\ AppendsNoAssistantTurn
       /\ (req[r].pc = "fetch" /\ req'[r].pc = "text") =>
            /\ req'[r].events = <<>>
            /\ conversationHistory' = conversationHistory
       /\ (req[r].pc = "text" /\ req'[r] # req[r]) =>
            /\ req'[r].pc = "ended"
            /\ OneErrorOnly(req'[r].events)
            /\ conversationHistory' = conversationHistory]_vars

\* A request ended on a non-success status with its single Error event, and
\* its session holds the user turn with no assistant turn after it.
C9_Witness ==
  \E r \in Requests :
    /\ req[r].pc = "ended"
    /\ req[r].events = <<Error("Model error")>>
    /\ History(req[r].sessionId) = <<Turn("user", <<"u">>)>>

\* C10: when the body fails while it is read, after any number of fragments,
\* the request emits exactly one Error event after them and no Done, and the
\* partial assistant text is discarded: the store is left unchanged.
C10_TransportErrorDiscards ==
  [][\A r \in Requests :
       (/\ req[r].pc = "stream"
        /\ req'[r].pc = "ended"
        /\ Last(req'[r].events).type = "Error") =>
         /\ Front(req'[r].events) = req[r].events
         /\ ~HasType(req'[r].events, "Done")
         /\ conversationHistory' = conversationHistory]_vars

\* A request failed after a fragment was emitted: its events are the
\* fragment and the Error, and its session holds only the user turn.
C10_Witness ==
  \E r \in Requests :
    /\ req[r].pc = "ended"
    /\ req[r].events = <<Fragment(<<"a">>), Error("stream failed")>>
    /\ req[r].assistantMessage = <<"a">>
    /\ History(req[r].sessionId) = <<Turn("user", <<"u">>)>>

(* ---------------------------------------------------------------------- *)
(* Properties of the extractors (stream-level specification)              *)
(* ---------------------------------------------------------------------- *)

\* Request r reads a chunk in this step; the chunk it reads.
ReadsChunk(r) == req[r].pc = "stream" /\ req'[r].pos > req[r].pos
ChunkRead(r) == SubSeq(req[r].text, req[r].pos + 1, req'[r].pos)

\* C5: brace-matched extractor: however the body is split into chunks, the
\* Fragment events emitted are those emitted when the whole body arrives as
\* one chunk.
C5_SplitInvariant ==
  \A r \in Requests :
    (~USE_OLLAMA /\ req[r].pc = "ended" /\ HasType(req[r].events, "Done")) =>
      req[r].events =
        Fragments(geminiChunk(<<>>, req[r].text).parts) \o <<Done>>

\* The first object the scanner delimits in buf: its first and last index
\* (0-based), -1 when there is none.
firstStart(buf) == indexOf(buf, LB, 0)
firstEnd(buf) ==
  IF firstStart(buf) = -1 THEN -1
  ELSE scanObject(buf, firstStart(buf), 0, FALSE)
firstFailsToParse(buf) ==
  /\ firstEnd(buf) # -1
  /\ ~JSONparse(SubSeq(buf, firstStart(buf) + 1, firstEnd(buf) + 1)).ok

\* The lines of a chunk as the newline-delimited extractor sees them.
linesOf(chunk) ==
  IF trim(toString(chunk)) = <<>> THEN <<>>
  ELSE split(trim(toString(chunk)), <<>>)

\* Line j is read (no line before it carries done = true) and yields a
\* fragment.
doneAt(lines, j) == JSONparse(lines[j]).ok /\ JSONparse(lines[j]).done
isRead(lines, j) == \A k \in 1..(j - 1) : ~doneAt(lines, k)
yields(lines, j) ==
  /\ isRead(lines, j)
  /\ JSONparse(lines[j]).ok
  /\ JSONparse(lines[j]).text # <<>>
failsAt(lines, j) ==
  isRead(lines, j) /\ lines[j] # <<>> /\ ~JSONparse(lines[j]).ok

\* The fragments of the lines from j on that yield one, in order.
RECURSIVE yielded(_, _)
yielded(lines, j) ==
  IF j > Len(lines) THEN <<>>
  ELSE (IF yields(lines, j) THEN <<JSONparse(lines[j]).text>> ELSE <<>>)
       \o yielded(lines, j + 1)

\* C6: a frame that fails to parse is skipped and the stream goes on. No
\* Error event is written for it and the request does not end on it.
\* Brace-matched: when the first object delimited in the buffer fails to
\* parse, the fragments forwarded and the tail kept are those of the text
\* after that object. Newline-delimited: every line of the chunk that
\* parses and carries text, also after a line that failed, has its fragment
\* forwarded, in order.
C6_ParseFailureSkipped ==
  [][\A r \in Requests :
       ReadsChunk(r) =>
         /\ (~USE_OLLAMA
             /\ firstFailsToParse(req[r].buffer \o toString(ChunkRead(r)))) =>
              LET buf == req[r].buffer \o toString(ChunkRead(r))
                  rest == substring(buf, firstEnd(buf) + 1) IN
              /\ req'[r].pc = "stream"
              /\ req'[r].errors > req[r].errors
              /\ req'[r].events =
                   req[r].events \o Fragments(geminiScan(rest, 0, <<>>, 0).parts)
              /\ req'[r].buffer =
                   substring(rest, geminiScan(rest, 0, <<>>, 0).lastIndex)
         /\ (USE_OLLAMA
             /\ \E j \in 1..Len(linesOf(ChunkRead(r))) :
                  failsAt(linesOf(ChunkRead(r)), j)) =>
              /\ req'[r].errors > req[r].errors
              /\ ~HasType(req'[r].events, "Error")
              /\ fragmentText(req'[r].events) =
                   fragmentText(req[r].events)
                     \o concat(yielded(linesOf(ChunkRead(r)), 1))
              /\ (req'[r].pc = "ended") =
                   (\E j \in 1..Len(linesOf(ChunkRead(r))) :
                      isRead(linesOf(ChunkRead(r)), j)
                        /\ doneAt(linesOf(ChunkRead(r)), j))]_vars

\* A brace-matched request ended with Done after an object in the middle of
\* its body failed to parse: the fragments before and after it were
\* forwarded.
C6_Witness ==
  \E r \in Requests :
    /\ ~USE_OLLAMA
    /\ req[r].pc = "ended"
    /\ req[r].errors = 1
    /\ req[r].text = Frame(<<"a">>) \o <<LB, "a", RB>> \o Frame(<<"b">>)
    /\ req[r].events = <<Fragment(<<"a">>), Fragment(<<"b">>), Done>>

\* C7: newline-delimited extractor: when a line that is read carries
\* done = true, the request forwards the fragments of the lines up to and
\* including that line, emits Done, appends the assistant turn with the text
\* accumulated so far and ends; an ended request reads nothing more and
\* emits nothing more.
C7_DoneStops ==
  [][\A r \in Requests :
       /\ (USE_OLLAMA /\ ReadsChunk(r)
           /\ \E j \in 1..Len(linesOf(ChunkRead(r))) :
                isRead(linesOf(ChunkRead(r)), j)
                  /\ doneAt(linesOf(ChunkRead(r)), j)) =>
            /\ req'[r].pc = "ended"
            /\ req'[r].events =
                 req[r].events
                   \o Fragments(yielded(linesOf(ChunkRead(r)), 1))
                   \o <<Done>>
            /\ HistoryAfter(req[r].sessionId) =
                 Append(History(req[r].sessionId),
                        Turn("assistant",
                             req[r].assistantMessage
                               \o concat(yielded(linesOf(ChunkRead(r)), 1))))
       /\ req[r].pc = "ended" =>
            /\ req'[r].pos = req[r].pos
            /\ req'[r].events = req[r].events]_vars

\* A newline-delimited request ended at the done line of a chunk that holds
\* a further line with text: only the fragment before the done line was
\* forwarded and recorded.
C7_Witness ==
  \E r \in Requests :
    /\ USE_OLLAMA
    /\ req[r].pc = "ended"
    /\ req[r].text =
         Frame(<<"a">>) \o <<NL, LB, "d", RB, NL>> \o Frame(<<"b">>)
    /\ req[r].pos = Len(req[r].text)
    /\ req[r].events = <<Fragment(<<"a">>), Done>>
    /\ Last(History(req[r].sessionId)) = Turn("assistant", <<"a">>)

(* ---------------------------------------------------------------------- *)
(* Properties of the session store                                        *)
(* ---------------------------------------------------------------------- *)

\* A message that passes the validation.
IsValid(message) == message.type = "string" /\ trim(message.val) # <<>>

\* C11: trimming is a sliding window: when the append of the user turn makes
\* the history longer than MAX_HISTORY, the stored history is exactly the
\* last MAX_HISTORY turns of the untrimmed sequence, in their order, each
\* unaltered; otherwise it is the untrimmed sequence.
C11_SlidingWindow ==
  [][\A r \in Requests, sessionId \in OwnKeys, message \in Messages :
       (Chat(r, sessionId, message) /\ IsValid(message)) =>
         LET untrimmed ==
               Append(History(sessionId), Turn("user", message.val))
             after == HistoryAfter(sessionId) IN
         IF Len(untrimmed) > MAX_HISTORY
         THEN /\ Len(after) = MAX_HISTORY
              /\ \A i \in 1..MAX_HISTORY :
                   after[i] = untrimmed[Len(untrimmed) - MAX_HISTORY + i]
         ELSE after = untrimmed]_vars

\* A history that begins with an assistant turn: its oldest turns were
\* dropped by a trim, and the turns kept are the most recent, in order.
C11_Witness ==
  \E k \in DOMAIN conversationHistory :
    /\ Len(conversationHistory[k]) = MAX_HISTORY
    /\ conversationHistory[k][1].role = "assistant"
    /\ Last(conversationHistory[k]).role = "user"

(* ---------------------------------------------------------------------- *)
(* Properties of the brace-matched scanner                                *)
(* ---------------------------------------------------------------------- *)

\* A text that is a concatenation of well-formed objects, read by the JSON
\* grammar from index i: whether it is one, and the non-empty text members
\* of its objects in order.
RECURSIVE objectsOf(_, _, _)
objectsOf(s, i, parts) ==
  LET j == skipWs(s, i) IN
  IF j > Len(s) THEN [ok |-> TRUE, parts |-> parts]
  ELSE IF s[j] # LB THEN [ok |-> FALSE, parts |-> parts]
  ELSE LET obj == parseObject(s, j) IN
       IF ~obj.ok THEN [ok |-> FALSE, parts |-> parts]
       ELSE objectsOf(s, obj.next,
                      IF obj.text # <<>> THEN Append(parts, obj.text)
                      ELSE parts)

\* A body of one-byte characters only: the scanner receives the same
\* characters however the body is cut into chunks.
OneByte(text) == \A i \in 1..Len(text) : text[i] \notin {"C3", "A9"}

\* C12: for every stream that is a concatenation of well-formed JSON
\* objects, whose strings may hold braces, escaped quotes and escaped
\* backslashes (a string ending in an escaped backslash included), the
\* scanner delimits exactly those objects, each once and in order: the
\* fragments forwarded are the text members of the objects in order, and
\* nothing of the stream is left in the buffer.
C12_ScannerDelimitsObjects ==
  \A r \in Requests :
    LET q == req[r]
        objs == objectsOf(q.text, 1, <<>>) IN
    (/\ ~USE_OLLAMA
     /\ q.pc = "ended"
     /\ HasType(q.events, "Done")
     /\ OneByte(q.text)
     /\ objs.ok) =>
      /\ q.events = Fragments(objs.parts) \o <<Done>>
      /\ trim(q.buffer) = <<>>

(* ---------------------------------------------------------------------- *)
(* Termination                                                            *)
(* ---------------------------------------------------------------------- *)

\* The events of a closed stream: fragments only, then one terminal event.
OneTerminalEvent(events) ==
  /\ events # <<>>
  /\ Last(events).type \in {"Done", "Error"}
  /\ \A i \in 1..(Len(events) - 1) : events[i].type = "Fragment"

\* C13: every validated request whose backend call was issued, and whose
\* backend fails, answers with an error, or answers with a body that ends
\* or fails, eventually has written exactly one terminal event and closed
\* the client stream; and a body that ends without a completion signal is a
\* success: the step writes Done and appends the assistant turn.
C13_EventuallyTerminal ==
  /\ \A r \in Requests :
       (req[r].pc \in InFlight) ~>
         (req[r].pc = "ended" /\ OneTerminalEvent(req[r].events))
  /\ [][\A r \in Requests :
          StreamEnd(r) =>
            /\ req'[r].pc = "ended"
            /\ Last(req'[r].events) = Done
            /\ AppendsAssistantTurn(req[r].sessionId)
            /\ Last(HistoryAfter(req[r].sessionId)).content =
                 req[r].assistantMessage]_vars

\* A request whose body ended without a done flag after a fragment: it ended
\* with Done as its only terminal event and its turn is recorded.
C13_Witness ==
  \E r \in Requests :
    /\ req[r].pc = "ended"
    /\ ~USE_OLLAMA
    /\ req[r].events = <<Fragment(<<"a">>), Done>>
    /\ req[r].pos = Len(req[r].text)
    /\ Last(History(req[r].sessionId)) = Turn("assistant", <<"a">>)

(* ---------------------------------------------------------------------- *)
(* Lines cut by a chunk boundary (newline-delimited extractor)            *)
(* ---------------------------------------------------------------------- *)

\* The line of the body that holds the bytes p and p + 1 (1-based), for a
\* p with no newline at either.
lineStart(text, p) ==
  CHOOSE a \in 1..p :
    /\ a = 1 \/ text[a - 1] = NL
    /\ \A k \in a..p : text[k] # NL
lineEnd(text, p) ==
  CHOOSE b \in (p + 1)..Len(text) :
    /\ b = Len(text) \/ text[b + 1] = NL
    /\ \A k \in (p + 1)..b : text[k] # NL

\* A chunk boundary after byte p cuts a line of the body that is valid JSON.
CutsJSONLine(text, p) ==
  /\ p > 0 /\ p < Len(text)
  /\ text[p] # NL /\ text[p + 1] # NL
  /\ JSONparse(toString(SubSeq(text, lineStart(text, p),
                               lineEnd(text, p)))).ok

\* C14: the newline-delimited extractor keeps no buffer across chunks. When
\* a chunk boundary cuts a JSON line of the body in two, the first half, at
\* the end of its chunk, and the second half, at the start of the next
\* chunk, each fail to parse and give no fragment; the failure is counted,
\* no Error event is written and the request goes on unless a done line was
\* read; and the fragments forwarded are those of the lines that parse
\* inside the chunk, in order.
C14_SplitLineDropped ==
  [][\A r \in Requests :
       (USE_OLLAMA /\ ReadsChunk(r)) =>
         LET text == req[r].text
             from == req[r].pos
             to == req'[r].pos
             lines == linesOf(ChunkRead(r))
             done == \E j \in 1..Len(lines) :
                       isRead(lines, j) /\ doneAt(lines, j) IN
         /\ (CutsJSONLine(text, to) /\ lineStart(text, to) > from) =>
              /\ lines # <<>>
              /\ ~JSONparse(Last(lines)).ok
              /\ ~yields(lines, Len(lines))
              /\ ~done => req'[r].errors > req[r].errors
         /\ (CutsJSONLine(text, from) /\ lineEnd(text, from) <= to) =>
              /\ lines # <<>>
              /\ ~JSONparse(lines[1]).ok
              /\ ~yields(lines, 1)
              /\ req'[r].errors > req[r].errors
         /\ ~HasType(req'[r].events, "Error")
         /\ req'[r].pc = IF done THEN "ended" ELSE "stream"
         /\ req'[r].events =
              req[r].events \o Fragments(yielded(lines, 1))
                \o (IF done THEN <<Done>> ELSE <<>>)]_vars

\* A body of two JSON lines was cut inside its first line: neither half gave
\* a fragment, the second line, whole in its chunk, gave its fragment, and
\* the request ended with Done.
C14_Witness ==
  \E r \in Requests :
    /\ USE_OLLAMA
    /\ req[r].pc = "ended"
    /\ req[r].text = Frame(<<"a">>) \o <<NL>> \o Frame(<<"b">>) \o <<NL>>
    /\ req[r].errors = 2
    /\ req[r].events = <<Fragment(<<"b">>), Done>>

(* ---------------------------------------------------------------------- *)
(* Requests racing on one session                                         *)
(* ---------------------------------------------------------------------- *)

\* C15: requests for one session are not mutually excluded: while a request
\* is suspended on its backend call, a second request for the same session
\* is taken and appends its user turn.
C15_NotMutuallyExcluded ==
  \A o \in Requests :
    (/\ req[o].pc \in InFlight
     /\ req[o].sessionId = "s1"
     /\ Free # {}
     /\ started < MaxRaceRequests) => ENABLED ChatRace(firstFree)

\* The interleaving: the first request sent <<u>>, the second appended v
\* while the first was suspended and sent <<u, v>>, the first's user turn
\* without its reply; then the first ended, and its assistant turn follows
\* v, not u.
C15_Witness ==
  \E r \in Requests, o \in Requests :
    /\ req[r].pc = "ended"
    /\ HasType(req[r].events, "Done")
    /\ req[r].sent = requestBody(<<Turn("user", <<"u">>)>>)
    /\ req[o].pc \in InFlight
    /\ req[o].sent =
         requestBody(<<Turn("user", <<"u">>), Turn("user", <<"v">>)>>)
    /\ History("s1") =
         << Turn("user", <<"u">>), Turn("user", <<"v">>),
            Turn("assistant", req[r].assistantMessage) >>

\* The history h2 is the history h with one turn appended, after the d
\* oldest turns of h were dropped by the trim.
AppendedTo(h, h2, d) ==
  /\ h2 # <<>>
  /\ Front(h2) = SubSeq(h, d + 1, Len(h))
  /\ d > 0 => (Len(h2) = MAX_HISTORY /\ Last(h2).role = "user")

\* C16: no append is lost by overwriting. Every step leaves each history as
\* it is or appends one turn to the history stored at that moment, turns of
\* other requests included, dropping only oldest turns in a trim; the turn
\* of a request that ends with Done is appended to the stored history, also
\* when the array was replaced by a trim since the request began; no entry
\* is removed.
C16_NoAppendLost ==
  [][/\ DOMAIN conversationHistory \subseteq DOMAIN conversationHistory'
     /\ \A k \in DOMAIN conversationHistory' :
          \/ HistoryAfter(k) = History(k)
          \/ \E d \in 0..Len(History(k)) :
               AppendedTo(History(k), HistoryAfter(k), d)
     /\ \A r \in Requests :
          EndsDone(r) =>
            HistoryAfter(req[r].sessionId) =
              Append(History(req[r].sessionId),
                     Turn("assistant", req'[r].assistantMessage))]_vars

\* The first request of the run sent <<u>>; while it was suspended two
\* later user turns v, v were appended and the trim that dropped u replaced
\* the array; the first request then ended with Done and its assistant turn
\* is the last turn of the stored history.
C16_Witness ==
  \E r \in Requests :
    /\ req[r].pc = "ended"
    /\ HasType(req[r].events, "Done")
    /\ req[r].sent = requestBody(<<Turn("user", <<"u">>)>>)
    /\ History("s1") =
         << Turn("user", <<"v">>), Turn("user", <<"v">>),
            Turn("assistant", req[r].assistantMessage) >>

\* C17: the history a validated request sends to the backend is the stored
\* history right after its own user turn was appended and trimmed: at most
\* MAX_HISTORY turns, the last of them the user turn of that request; and
\* what was sent does not change while the request is in flight.
C17_SentHistory ==
  [][\A r \in Requests :
       /\ \A message \in RaceMessages :
            (/\ started < MaxRaceRequests
             /\ postChat(r, "s1", message)
             /\ req'[r].pc = "fetch") =>
              /\ Len(req'[r].sent) \in 1..MAX_HISTORY
              /\ Last(req'[r].sent) =
                   [role |-> "user", content |-> message.val]
              /\ req'[r].sent = requestBody(HistoryAfter("s1"))
       /\ (req[r].pc \in InFlight /\ req'[r].pc \in InFlight) =>
            req'[r].sent = req[r].sent]_vars

\* A request suspended on its backend call after the trim dropped the oldest
\* turn: it sent the reply to an earlier request and its own user turn v,
\* MAX_HISTORY turns in all, and another request has appended since.
C17_Witness ==
  \E r \in Requests :
    /\ req[r].pc = "fetch"
    /\ Len(req[r].sent) = MAX_HISTORY
    /\ req[r].sent[1].role \in {"assistant", "model"}
    /\ Last(req[r].sent) = [role |-> "user", content |-> <<"v">>]
    /\ Len(History("s1")) > MAX_HISTORY

IsPrefix(prefix, seq) ==
  /\ Len(prefix) <= Len(seq)
  /\ prefix = SubSeq(seq, 1, Len(prefix))

\* Request r ends with an error in this step.
EndsError(r) == Ends(r) /\ ~EndsDone(r)

\* C18 as claimed: a request that fails after validation does not roll
\* back: when it ends, the history of its session is exactly the history as
\* it was right after its user turn was appended and trimmed (the history
\* it sent to the backend).
C18_HistoryAsAfterUserTurn ==
  [][\A r \in Requests :
       EndsError(r) =>
         requestBody(HistoryAfter(req[r].sessionId)) = req[r].sent]_vars

\* C18 as amended: the step in which a request fails writes an error event
\* and leaves the store as it is: nothing is rolled back and no assistant
\* turn is appended. The history at that moment is the history of right
\* after the request's user turn (what remains of it after later trims)
\* followed by what other requests appended since, and exactly that history
\* when no other request ran since. A request that fails for missing
\* credentials ends in the step that appended its user turn.
C18_FailureChangesNothing ==
  [][\A r \in Requests :
       /\ EndsError(r) =>
            /\ conversationHistory' = conversationHistory
            /\ Last(req'[r].events).type = "Error"
            /\ \E d \in 0..Len(req[r].sent) :
                 /\ IsPrefix(SubSeq(req[r].sent, d + 1, Len(req[r].sent)),
                             requestBody(History(req[r].sessionId)))
                 /\ d > 0 => Len(History(req[r].sessionId)) >= MAX_HISTORY
            /\ (\A o \in Requests \ {r} : req[o].pc = "idle") =>
                 requestBody(History(req[r].sessionId)) = req[r].sent
       /\ \A message \in RaceMessages :
            (/\ started < MaxRaceRequests
             /\ postChat(r, "s1", message)
             /\ req'[r].pc = "ended") =>
              /\ Last(req'[r].events).type = "Error"
              /\ Last(HistoryAfter("s1")) = Turn("user", message.val)
              /\ \E d \in 0..Len(History("s1")) :
                   AppendedTo(History("s1"), HistoryAfter("s1"), d)]_vars

\* A request that sent <<u>> ended with an error after another request had
\* appended v: its user turn is still recorded, unanswered, and the history
\* is not the one of right after its own append.
C18_Witness ==
  \E r \in Requests :
    /\ req[r].pc = "ended"
    /\ HasType(req[r].events, "Error")
    /\ req[r].sent = requestBody(<<Turn("user", <<"u">>)>>)
    /\ History("s1") = <<Turn("user", <<"u">>), Turn("user", <<"v">>)>>

(* ---------------------------------------------------------------------- *)
(* Isolation of the sessions                                              *)
(* ---------------------------------------------------------------------- *)

\* C19: sessions are isolated by key. A request for session key s, at its
\* arrival and at every later step, whatever its outcome, leaves the
\* history of every other key as it is and creates or removes no entry of
\* another key; an entry is created only by the arrival of a validated
\* request for a key that has none, with that request's user turn as its
\* first turn; and no entry is ever removed.
C19_SessionsIsolated ==
  [][/\ DOMAIN conversationHistory \subseteq DOMAIN conversationHistory'
     /\ started' = started =>
          DOMAIN conversationHistory' = DOMAIN conversationHistory
     /\ \A r \in Requests, sessionId \in SessionIds, message \in Messages :
          Chat(r, sessionId, message) =>
            /\ \A k \in SessionIds \ {sessionId} :
                 /\ HistoryAfter(k) = History(k)
                 /\ k \in DOMAIN conversationHistory'
                      <=> k \in DOMAIN conversationHistory
            /\ sessionId \in
                 DOMAIN conversationHistory' \ DOMAIN conversationHistory =>
                 /\ IsValid(message)
                 /\ HistoryAfter(sessionId) = <<Turn("user", message.val)>>
            /\ ~IsValid(message) =>
                 conversationHistory' = conversationHistory
     /\ \A r \in Requests :
          (req[r].pc \in InFlight /\ req'[r] # req[r]) =>
            \A k \in SessionIds \ {req[r].sessionId} :
              HistoryAfter(k) = History(k)]_vars

\* Two sessions served at the same time: the request for "s1" has ended
\* with its assistant turn recorded while the request for "s2" is still
\* suspended, and the history of "s2" holds its user turn only.
C19_Witness ==
  \E r \in Requests, o \in Requests :
    /\ req[r].sessionId = "s1"
    /\ req[r].pc = "ended"
    /\ HasType(req[r].events, "Done")
    /\ req[o].sessionId = "s2"
    /\ req[o].pc \in InFlight
    /\ Len(History("s1")) = 2
    /\ Last(History("s1")).role = "assistant"
    /\ History("s2") = <<Turn("user", <<"u">>)>>

(* ---------------------------------------------------------------------- *)
(* The buffer of the brace-matched extractor                              *)
(* ---------------------------------------------------------------------- *)

\* The first cut characters of buf end with an object the scanner delimits.
EndsWithObject(buf, cut) ==
  \E start \in 0..(cut - 1) :
    /\ charAt(buf, start) = LB
    /\ scanObject(buf, start, 0, FALSE) = cut - 1

\* C20: after each chunk, the buffer kept is the suffix of the text
\* received so far (the buffer before the chunk followed by the decoded
\* chunk, hence of all the text received) that starts right after the last
\* object the scanner delimited, the whole text when it delimited none; the
\* scanner delimits no object in it; and the fragments and parse failures
\* of the step are those of the part consumed, scanned once and to its end,
\* so no character of a delimited object is kept and no frame is parsed or
\* emitted twice.
C20_BufferIsUnconsumedTail ==
  [][\A r \in Requests :
       (~USE_OLLAMA /\ ReadsChunk(r)) =>
         LET buf == req[r].buffer \o toString(ChunkRead(r))
             kept == req'[r].buffer
             cut == Len(buf) - Len(kept)
             consumed == geminiScan(SubSeq(buf, 1, cut), 0, <<>>, 0) IN
         /\ IsSuffix(kept, buf)
         /\ OneByte(req[r].text) =>
              IsSuffix(kept, SubSeq(req[r].text, 1, req'[r].pos))
         /\ cut = 0 <=> firstEnd(buf) = -1
         /\ cut > 0 => EndsWithObject(buf, cut)
         /\ firstEnd(kept) = -1
         /\ consumed.lastIndex = cut
         /\ req'[r].events = req[r].events \o Fragments(consumed.parts)
         /\ req'[r].errors = req[r].errors + consumed.errors]_vars

\* After a chunk that held one object and the beginning of the next, the
\* fragment of the first was forwarded and only the beginning of the second
\* is kept.
C20_Witness ==
  \E r \in Requests :
    /\ ~USE_OLLAMA
    /\ req[r].pc = "stream"
    /\ req[r].text = Frame(<<"a">>) \o Frame(<<"b">>)
    /\ req[r].events = <<Fragment(<<"a">>)>>
    /\ req[r].buffer = <<LB, QT>>

====
